---- MODULE Spec2Model ----
(***************************************************************************)
(* The domain-to-DDL compiler of nsaph/data_model/domain.py.               *)
(*                                                                         *)
(* A string is a sequence of tokens, so that str.startswith, the `in`      *)
(* substring test and str.format are computed on the text itself.  An      *)
(* optional value (a key that may be absent, a Python None) is a sequence  *)
(* of length 0 or 1.  The table tree is kept flat: tables[i].parent is 0   *)
(* for a top-level table and otherwise the index of the node whose         *)
(* "children" mapping holds node i; mappings keep insertion order, which   *)
(* is the order of the indices.                                            *)
(***************************************************************************)
EXTENDS Integers, Sequences, FiniteSets, TLC

VARIABLES
    tables,        \* spec[domain]["tables"]: the table tree (shared, mutable)
    domain_schema, \* spec[domain]["schema"], optional
    global_schema, \* spec["schema"], optional
    aux_schemas,   \* the spec[domain] keys named "schema.<suffix>", in order
    ddl,           \* Domain.ddl
    indices,       \* Domain.indices
    inits,         \* number of init() calls made
    init_error,    \* what the last init() raised, optional
    error,         \* what the last call raised, optional
    last,          \* the last call: its name and arguments
    result,        \* what the last call returned
    executed       \* the statements the last call handed to cursor.execute

vars == <<tables, domain_schema, global_schema, aux_schemas, ddl, indices,
          inits, init_error, error, last, result, executed>>

-----------------------------------------------------------------------------
(* Bounds *)

MaxNodes == 3
MaxInits == 2
MaxValue == 2

-----------------------------------------------------------------------------
(* Strings *)

RECURSIVE Join(_, _)
Join(parts, sep) ==
    IF parts = <<>> THEN <<>>
    ELSE IF Len(parts) = 1 THEN parts[1]
    ELSE parts[1] \o sep \o Join(Tail(parts), sep)

StartsWith(s, p) == Len(p) <= Len(s) /\ SubSeq(s, 1, Len(p)) = p

Contains(s, t) ==
    \E i \in 1..(Len(s) - Len(t) + 1) : SubSeq(s, i, i + Len(t) - 1) = t

Range(s) == {s[i] : i \in 1..Len(s)}

Map(s, Op(_)) == [i \in 1..Len(s) |-> Op(s[i])]

Str(opt) == IF opt = <<>> THEN <<"None">> ELSE opt[1]

-----------------------------------------------------------------------------
(* nsaph.data_model.utils and nsaph.data_model.model *)

split(column) == <<column.name, column>>

basename(table) ==
    LET dots == {i \in 1..Len(table) : table[i] = "."}
        lastDot == IF dots = {} THEN 0
                   ELSE CHOOSE i \in dots : \A j \in dots : j <= i
    IN SubSeq(table, lastDot + 1, Len(table))

IndexRegistry == {"year"}

index_method(n) == IF n \in IndexRegistry THEN <<"btree">> ELSE <<>>

INDEX_NAME_PATTERN(table, column) == table \o <<"_", column, "_idx">>

INDEX_DDL_PATTERN(option, name, table, column, method) ==
    <<"CREATE INDEX ">> \o option \o <<" ">> \o name \o <<" ON ">> \o table
        \o <<" USING ", method, " (", column, ")">>

-----------------------------------------------------------------------------
(* Exceptions *)

NoError == <<>>
KeyError(key) == <<[type |-> "KeyError", arg |-> key]>>
TypeError == <<[type |-> "TypeError", arg |-> <<"NoneType">>]>>
LookupError(table) == <<[type |-> "LookupError", arg |-> table]>>
RecursionError == <<[type |-> "RecursionError", arg |-> <<>>]>>
ParentKeyException(ptable) ==
    <<[type |-> "Exception",
       arg |-> <<"Parent table ">> \o ptable \o <<" must define primary key">>]>>
GeneratedCodeException ==
    <<[type |-> "Exception",
       arg |-> <<"Generated column must specify the compute code">>]>>
InvalidActionException(table, action) ==
    <<[type |-> "Exception",
       arg |-> <<"Invalid action on validation for table ">> \o table
                 \o <<": ", action>>]>>

-----------------------------------------------------------------------------
(* Domain.__init__ and the small helpers *)

schema ==
    IF domain_schema # <<>> THEN domain_schema
    ELSE IF global_schema # <<>> THEN global_schema
    ELSE <<>>

index_policy == "selected"

conucrrent_indices == FALSE

fqn(table) == IF schema # <<>> THEN schema[1] \o <<".">> \o table ELSE table

CREATE(name) == <<"CREATE TABLE ">> \o name

CreateSchema(s) == <<"CREATE SCHEMA IF NOT EXISTS ">> \o s \o <<";">>

Statement(role, owner, text) ==
    [role |-> role, owner |-> owner, text |-> text, branches |-> <<>>]

ChildrenOf(tbls, p) ==
    SelectSeq([i \in 1..Len(tbls) |-> i], LAMBDA i : tbls[i].parent = p)

is_array(column) ==
    column.type # <<>> /\ column.type[1][Len(column.type[1])] = "]"

is_generated(column) == column.gen # "no"

column_spec(column) ==
    LET name == split(column)[1]
        c == split(column)[2]
        t == IF c.type = <<>> THEN <<"VARCHAR">> ELSE c.type[1]
    IN IF is_generated(c)
       THEN IF c.gen = "nocode"
            THEN [error |-> GeneratedCodeException, text |-> <<>>]
            ELSE [error |-> NoError,
                  text |-> <<name, " ">> \o t \o <<" ", "code">>]
       ELSE [error |-> NoError, text |-> <<name, " ">> \o t]

need_index(column) ==
    IF index_policy = "all" THEN TRUE
    ELSE IF split(column)[2].index THEN TRUE
    ELSE IF index_policy = "selected" THEN index_method(split(column)[1]) # <<>>
    ELSE FALSE

\* a column here has no "index" attribute that names the index or its method,
\* so lines 229-237 leave iname and method unset
get_index_ddl(table, column) ==
    LET option == IF conucrrent_indices THEN <<"CONCURRENTLY">> ELSE <<>>
        cname == split(column)[1]
        method == IF is_array(split(column)[2]) THEN "GIN" ELSE "BTREE"
        iname == INDEX_NAME_PATTERN(basename(table), cname)
    IN INDEX_DDL_PATTERN(option, iname, table, cname, method) \o <<";">>

-----------------------------------------------------------------------------
(* Domain.spillover_table *)

\* spec[key] for spec = self.spec[self.domain]
DomainSpecValue(key) ==
    IF key = <<"schema">>
    THEN IF domain_schema # <<>>
         THEN [error |-> NoError, value |-> domain_schema[1]]
         ELSE [error |-> KeyError(key), value |-> <<>>]
    ELSE LET hits == SelectSeq(aux_schemas, LAMBDA a : a.key = key)
         IN IF hits # <<>>
            THEN [error |-> NoError, value |-> hits[1].value]
            ELSE [error |-> KeyError(key), value |-> <<>>]

\* ts[0] == '$' selects the indirection; ts[1:] is the key looked up
Resolve(part) ==
    IF part[1] = "$" THEN DomainSpecValue(Tail(part))
    ELSE [error |-> NoError, value |-> part]

\* returns [error, name]: name is optional (None for anything but insert)
spillover_table(table, definition) ==
    IF definition.invalid = <<>> THEN [error |-> NoError, name |-> <<>>]
    ELSE
    LET validation == definition.invalid[1]
    IN IF validation.action # "insert" THEN [error |-> NoError, name |-> <<>>]
       ELSE IF validation.target = <<>>
       THEN [error |-> KeyError(<<"target">>), name |-> <<>>]
       ELSE
       LET target == validation.target[1]
           ts == IF target.schema # <<>> THEN Resolve(target.schema[1])
                 ELSE DomainSpecValue(<<"schema">>)
           tt == IF target.table # <<>> THEN Resolve(target.table[1])
                 ELSE [error |-> NoError, value |-> table]
       IN IF ts.error # NoError THEN [error |-> ts.error, name |-> <<>>]
          ELSE IF tt.error # NoError THEN [error |-> tt.error, name |-> <<>>]
          ELSE [error |-> NoError,
                name |-> <<ts.value \o <<".">> \o tt.value>>]

-----------------------------------------------------------------------------
(* AUDIT_INSERT, VALIDATION_PROC, VALIDATION_TRIGGER and add_fk_validation *)

\* a condition is a list of tests on columns joined by AND or by OR
Condition(join, test, columns) ==
    [join |-> join, atoms |-> [i \in 1..Len(columns) |->
                                  [test |-> test, column |-> columns[i]]]]

AtomText(a) ==
    IF a.test = "eq" THEN <<"NEW.", a.column, " = ", a.column>>
    ELSE <<"NEW.", a.column, " IS NULL ">>

ConditionText(c) ==
    Join([i \in 1..Len(c.atoms) |-> AtomText(c.atoms[i])], <<c.join>>)

\* an action is optional: the empty string, or one AUDIT_INSERT
AUDIT_INSERT(target, columns, values, reason) ==
    <<[target |-> target, columns |-> columns, values |-> values,
       reason |-> reason]>>

ActionText(a) ==
    IF a = <<>> THEN <<>>
    ELSE <<"INSERT INTO ">> \o a[1].target \o <<" (">>
         \o Join([i \in 1..Len(a[1].columns) |-> <<a[1].columns[i]>>], <<",">>)
         \o <<", REASON) VALUES (">>
         \o Join([i \in 1..Len(a[1].values) |-> a[1].values[i]], <<",">>)
         \o <<", '", a[1].reason, "');">>

\* the template: the three IF blocks in the order the text has them; f holds
\* the keyword arguments of str.format
VALIDATION_PROC(f) ==
    LET schema_ == f.schema
        source == f.source
        parent_table == f.parent_table
        condition_dup == f.condition_dup
        action_dup == f.action_dup
        condition_fk == f.condition_fk
        action_fk == f.action_fk
        condition_pk == f.condition_pk
        action_pk == f.action_pk
    IN
    [branches |->
        << [guard |-> "IF", from |-> <<>>,
            condition |-> condition_pk, action |-> action_pk],
           [guard |-> "IF NOT EXISTS", from |-> parent_table,
            condition |-> condition_fk, action |-> action_fk],
           [guard |-> "IF EXISTS", from |-> schema_ \o <<".">> \o source,
            condition |-> condition_dup, action |-> action_dup] >>,
     text |->
        <<"CREATE OR REPLACE FUNCTION", " ">> \o schema_ \o <<".validate_">>
        \o source \o <<"() RETURNS TRIGGER AS $">> \o schema_ \o <<"_">>
        \o source \o <<"_validation$ -- Validate foreign key for ">>
        \o schema_ \o <<".">> \o source
        \o <<" BEGIN IF (">> \o ConditionText(condition_pk) \o <<") THEN ">>
        \o ActionText(action_pk) \o <<" RETURN NULL; END IF; ">>
        \o <<"IF NOT EXISTS ( SELECT FROM ">> \o parent_table \o <<" WHERE ">>
        \o ConditionText(condition_fk) \o <<" ) THEN ">>
        \o ActionText(action_fk) \o <<" RETURN NULL; END IF; ">>
        \o <<"IF EXISTS ( SELECT FROM ">> \o schema_ \o <<".">> \o source
        \o <<" WHERE ">> \o ConditionText(condition_dup) \o <<" ) THEN ">>
        \o ActionText(action_dup) \o <<" RETURN NULL; END IF; ">>
        \o <<"RETURN NEW; END; $">> \o schema_ \o <<"_">> \o source
        \o <<"_validation$ LANGUAGE plpgsql;">>]

VALIDATION_TRIGGER(schema_, name, table) ==
    <<"CREATE TRIGGER", " ">> \o schema_ \o <<"_">> \o name
    \o <<"_validation BEFORE INSERT ON ">> \o table
    \o <<" FOR EACH ROW EXECUTE FUNCTION ">> \o schema_ \o <<".validate_">>
    \o name \o <<"();">>

AuditReasons == <<"DUPLICATE", "FOREIGN KEY", "PRIMARY KEY">>

\* pk, target, pt and fk_columns are optional (None); returns [error, ddl]
add_fk_validation(ddl_, owner, table, pk, action, target, columns, pt, fk_columns) ==
    IF action \notin {"insert", "ignore"}
    THEN [error |-> InvalidActionException(table, action), ddl |-> ddl_]
    ELSE IF pk = <<>> \/ fk_columns = <<>>
    THEN [error |-> TypeError, ddl |-> ddl_]
    ELSE
    LET cc == Map(SelectSeq(columns,
                            LAMBDA c : ~is_generated(split(c)[2])),
                  LAMBDA c : split(c)[1])
        vv == Map(cc, LAMBDA c : <<"NEW.", c>>)
        actions == IF action = "insert"
                   THEN Map(AuditReasons,
                            LAMBDA r : AUDIT_INSERT(target[1], cc, vv, r))
                   ELSE << <<>>, <<>>, <<>> >>
        conditions == << Condition(" AND ", "eq", pk[1]),
                         Condition(" AND ", "eq", fk_columns[1]),
                         Condition(" OR ", "isnull", pk[1]) >>
        t == basename(table)
        proc == VALIDATION_PROC(
                    [schema |-> Str(schema), source |-> t,
                     parent_table |-> fqn(pt[1]),
                     condition_dup |-> conditions[1], action_dup |-> actions[1],
                     condition_fk |-> conditions[2], action_fk |-> actions[2],
                     condition_pk |-> conditions[3], action_pk |-> actions[3]])
        sql == [role |-> "function", owner |-> owner, text |-> proc.text,
                branches |-> proc.branches]
        trigger == Statement("trigger", owner,
                             VALIDATION_TRIGGER(Str(schema), t, table))
    IN [error |-> NoError, ddl |-> ddl_ \o <<sql, trigger>>]

-----------------------------------------------------------------------------
(* Domain.ddl_for_node *)

\* the append without the test `c not in cnames`
InheritedColumnsUnchecked(pcolumns, fk_columns, cnames) ==
    SelectSeq(pcolumns, LAMBDA column :
        split(column)[1] \in Range(fk_columns))

\* the append of every parent column the child lacks, key or not
InheritedColumnsAny(pcolumns, fk_columns, cnames) ==
    SelectSeq(pcolumns, LAMBDA column : split(column)[1] \notin cnames)

\* lines 170-173: the parent's key columns the child does not have by name
InheritedColumns(pcolumns, fk_columns, cnames) ==
    SelectSeq(pcolumns, LAMBDA column :
        split(column)[1] \in Range(fk_columns) /\ split(column)[1] \notin cnames)

\* lines 168-169
ForeignKey(table_basename, ptable, fk_columns) ==
    <<"CONSTRAINT ">> \o table_basename \o <<"_to_">> \o ptable
    \o <<" FOREIGN KEY (">>
    \o Join([i \in 1..Len(fk_columns) |-> <<fk_columns[i]>>], <<", ">>)
    \o <<") REFERENCES ">> \o fqn(ptable) \o <<" (">>
    \o Join([i \in 1..Len(fk_columns) |-> <<fk_columns[i]>>], <<", ">>)
    \o <<")">>

\* lines 178-181
PrimaryKey(pk_columns) ==
    <<"PRIMARY KEY (">>
    \o Join([i \in 1..Len(pk_columns) |-> <<pk_columns[i]>>], <<", ">>)
    \o <<")">>

\* lines 186 and 196
CreateTable(name, features) ==
    CREATE(name) \o <<" (">> \o Join(features, <<",">>) \o <<");">>

\* line 193-195: the features of the spillover table
SpilloverFeatures(features) ==
    SelectSeq(features, LAMBDA f :
        ~Contains(f, <<"CONSTRAINT ">>) /\ ~Contains(f, <<"PRIMARY KEY (">>))
    \o << <<"REASON VARCHAR(16)">>,
          <<"recorded_at TIMESTAMP DEFAULT CURRENT_TIMESTAMP ">> >>

\* the spillover table created after the procedure and the trigger
ValidateThenSpill(st, i, features, columns, pk_columns, ptable, fk_columns) ==
    LET definition == st.tables[i]
        table == fqn(definition.base)
    IN IF definition.invalid = <<>> THEN st
       ELSE
       LET action == definition.invalid[1].action
           t2 == spillover_table(definition.base, definition)
       IN IF t2.error # NoError THEN [st EXCEPT !.error = t2.error]
          ELSE
          LET v == add_fk_validation(st.ddl, i, table, pk_columns, action,
                                     t2.name, columns, ptable, fk_columns)
              ddl1 == IF t2.name # <<>>
                      THEN Append(v.ddl,
                               Statement("spillover", i,
                                   CreateTable(t2.name[1],
                                               SpilloverFeatures(features))))
                      ELSE v.ddl
          IN [st EXCEPT !.ddl = ddl1, !.error = v.error]

\* lines 188-198; st is [tables, ddl, indices, error]
Validate(st, i, features, columns, pk_columns, ptable, fk_columns) ==
    LET definition == st.tables[i]
        table == fqn(definition.base)
    IN IF definition.invalid = <<>> THEN st
       ELSE
       LET action == definition.invalid[1].action
           t2 == spillover_table(definition.base, definition)
       IN IF t2.error # NoError THEN [st EXCEPT !.error = t2.error]
          ELSE
          LET ddl1 == IF t2.name # <<>>
                      THEN Append(st.ddl,
                               Statement("spillover", i,
                                   CreateTable(t2.name[1],
                                               SpilloverFeatures(features))))
                      ELSE st.ddl
              v == add_fk_validation(ddl1, i, table, pk_columns, action,
                                     t2.name, columns, ptable, fk_columns)
          IN [st EXCEPT !.ddl = v.ddl, !.error = v.error]

\* lines 201-204
Indexed(st, table, columns) ==
    [st EXCEPT !.indices = @ \o
        Map(SelectSeq(columns, need_index),
            LAMBDA column : get_index_ddl(table, column))]

\* the check made on the child's definition instead of the parent's
ChildLacksKey(definition, pdef) == definition.primary_key = <<>>

\* line 163
ParentLacksKey(definition, pdef) == pdef.primary_key = <<>>

RECURSIVE ddl_for_node(_, _, _)
RECURSIVE ddl_for_nodes(_, _, _)

\* the loops of lines 84-85 and 208-209: an exception ends the walk
ddl_for_nodes(st, nodes, parent) ==
    IF nodes = <<>> \/ st.error # NoError THEN st
    ELSE ddl_for_nodes(ddl_for_node(st, Head(nodes), parent), Tail(nodes),
                       parent)

\* node and parent are indices into st.tables; parent = 0 is parent = None
ddl_for_node(st, node, parent) ==
    LET definition == st.tables[node]
        table_basename == definition.base
        cnames == {split(column)[1] : column \in Range(definition.columns)}
        table == fqn(table_basename)
    IN
    IF parent # 0 /\ ParentLacksKey(definition, st.tables[parent])
    THEN [st EXCEPT !.error = ParentKeyException(st.tables[parent].base)]
    ELSE IF parent # 0 /\ st.tables[parent].primary_key = <<>>
    THEN [st EXCEPT !.error = KeyError(<<"primary_key">>)]
    ELSE
    LET ptable == IF parent # 0 THEN <<st.tables[parent].base>> ELSE <<>>
        fk_columns == IF parent # 0 THEN st.tables[parent].primary_key
                      ELSE <<>>
        fk == IF parent # 0
              THEN <<ForeignKey(table_basename, ptable[1], fk_columns[1])>>
              ELSE <<>>
        columns == IF parent # 0
                   THEN definition.columns \o
                        InheritedColumns(st.tables[parent].columns,
                                         fk_columns[1], cnames)
                   ELSE definition.columns
        \* columns.append changes the list the specification holds
        st1 == [st EXCEPT !.tables[node].columns = columns]
        specs == Map(columns, column_spec)
        bad == {k \in 1..Len(specs) : specs[k].error # NoError}
    IN
    IF bad # {}
    THEN [st1 EXCEPT !.error =
              specs[CHOOSE k \in bad : \A j \in bad : k <= j].error]
    ELSE
    LET pk_columns == definition.primary_key
        features == Map(specs, LAMBDA x : x.text)
                    \o (IF pk_columns # <<>>
                        THEN <<PrimaryKey(pk_columns[1])>> ELSE <<>>)
                    \o fk
        st2 == [st1 EXCEPT !.ddl =
                   Append(@, Statement("table", node,
                                       CreateTable(table, features)))]
        st3 == Validate(st2, node, features, columns, pk_columns, ptable,
                        fk_columns)
    IN
    IF st3.error # NoError THEN st3
    ELSE
    LET st4 == Indexed(st3, table, columns)
    IN IF definition.children
       THEN ddl_for_nodes(st4, ChildrenOf(st4.tables, node), node)
       ELSE st4

-----------------------------------------------------------------------------
(* Domain.init *)

\* init() that appends to the list it already holds
SchemaStatementsKept ==
    ddl \o (IF schema # <<>>
            THEN <<Statement("schema", 0, CreateSchema(schema[1]))>>
            ELSE <<>>)
        \o Map(aux_schemas,
               LAMBDA a : Statement("schema", 0, CreateSchema(a.value)))

\* lines 75-81
SchemaStatements ==
    (IF schema # <<>>
     THEN <<Statement("schema", 0, CreateSchema(schema[1]))>> ELSE <<>>)
    \o Map(aux_schemas, LAMBDA a : Statement("schema", 0, CreateSchema(a.value)))

Compiled ==
    ddl_for_nodes([tables |-> tables, ddl |-> SchemaStatements,
                   indices |-> indices, error |-> NoError],
                  ChildrenOf(tables, 0), 0)

init ==
    LET st == Compiled
    IN
    /\ inits < MaxInits
    /\ tables' = st.tables
    /\ ddl' = st.ddl
    /\ indices' = st.indices
    /\ init_error' = st.error
    /\ error' = st.error
    /\ inits' = inits + 1
    /\ last' = [call |-> "init", arg |-> <<>>]
    /\ result' = <<>>
    /\ executed' = <<>>
    /\ UNCHANGED <<domain_schema, global_schema, aux_schemas>>

-----------------------------------------------------------------------------
(* Domain.find, Domain.find_dependent, Domain.drop *)

RECURSIVE find(_, _, _)
RECURSIVE find_each(_, _, _)

\* root = 0 is root = None; returns [error, node], node = 0 for None
find(tbls, table, root) ==
    IF root # 0 /\ ~tbls[root].children
    THEN [error |-> KeyError(<<"children">>), node |-> 0]
    ELSE
    LET ts == ChildrenOf(tbls, root)
        hit == SelectSeq(ts, LAMBDA i : tbls[i].base = table)
    IN IF hit # <<>> THEN [error |-> NoError, node |-> hit[1]]
       ELSE find_each(tbls, table, ts)

\* lines 100-104
find_each(tbls, table, ts) ==
    IF ts = <<>> THEN [error |-> NoError, node |-> 0]
    ELSE LET d == find(tbls, table, Head(ts))
         IN IF d.error # NoError \/ d.node # 0 THEN d
            ELSE find_each(tbls, table, Tail(ts))

RECURSIVE find_dependent(_, _, _)
RECURSIVE find_dependents(_, _, _)

\* depth counts the nested calls: a chain longer than the number of nodes
\* repeats a node and never ends (Python's RecursionError)
find_dependent(tbls, table, depth) ==
    IF depth > Len(tbls) THEN [error |-> RecursionError, names |-> <<>>]
    ELSE
    LET t == find(tbls, table, 0)
    IN IF t.error # NoError THEN [error |-> t.error, names |-> <<>>]
       ELSE IF t.node = 0 THEN [error |-> LookupError(table), names |-> <<>>]
       ELSE
       LET kids == IF tbls[t.node].children
                   THEN find_dependents(tbls,
                            Map(ChildrenOf(tbls, t.node),
                                LAMBDA i : tbls[i].base),
                            depth + 1)
                   ELSE [error |-> NoError, names |-> <<>>]
           t2 == spillover_table(table, tbls[t.node])
       IN IF kids.error # NoError THEN kids
          ELSE IF t2.error # NoError
          THEN [error |-> t2.error, names |-> <<>>]
          ELSE [error |-> NoError,
                names |-> <<fqn(table)>> \o kids.names \o t2.name]

\* lines 112-113
find_dependents(tbls, children, depth) ==
    IF children = <<>> THEN [error |-> NoError, names |-> <<>>]
    ELSE LET d == find_dependent(tbls, Head(children), depth)
         IN IF d.error # NoError THEN d
            ELSE LET r == find_dependents(tbls, Tail(children), depth)
                 IN IF r.error # NoError THEN r
                    ELSE [error |-> NoError, names |-> d.names \o r.names]

DropTable(t) == <<"DROP TABLE IF EXISTS ">> \o t \o <<" CASCADE">>

-----------------------------------------------------------------------------
(* Domain.matches, Domain.create *)

matches(create_statement, list_of_tables) ==
    \E k \in 1..Len(list_of_tables) :
        LET t == list_of_tables[k]
        IN \/ StartsWith(create_statement, CREATE(t))
           \/ \E create \in {"CREATE TRIGGER", "CREATE OR REPLACE FUNCTION"} :
                 /\ StartsWith(create_statement, <<create>>)
                 /\ Contains(create_statement, t)

\* list_of_tables = <<>> is None (or an empty list)
Statements(list_of_tables) ==
    IF list_of_tables # <<>>
    THEN SelectSeq(ddl, LAMBDA s : matches(s.text, list_of_tables))
    ELSE ddl

\* find_dependent(table)
call_find_dependent(table) ==
    LET r == find_dependent(tables, table, 1)
    IN /\ error' = r.error
       /\ result' = r.names
       /\ executed' = <<>>
       /\ last' = [call |-> "find_dependent", arg |-> table]
       /\ UNCHANGED <<tables, domain_schema, global_schema, aux_schemas, ddl,
                      indices, inits, init_error>>

\* drop(table, connection)
drop(table) ==
    LET r == find_dependent(tables, table, 1)
    IN /\ error' = r.error
       /\ result' = r.names
       /\ executed' = Map(r.names, DropTable)
       /\ last' = [call |-> "drop", arg |-> table]
       /\ UNCHANGED <<tables, domain_schema, global_schema, aux_schemas, ddl,
                      indices, inits, init_error>>

\* create(connection, list_of_tables)
create(list_of_tables) ==
    /\ error' = NoError
    /\ result' = <<>>
    /\ executed' = Map(Statements(list_of_tables), LAMBDA s : s.text)
    /\ last' = [call |-> "create", arg |-> list_of_tables]
    /\ UNCHANGED <<tables, domain_schema, global_schema, aux_schemas, ddl,
                   indices, inits, init_error>>

\* spillover_table(table, definition) for a node of the tree
call_spillover_table(node) ==
    LET r == spillover_table(tables[node].base, tables[node])
    IN /\ error' = r.error
       /\ result' = r.name
       /\ executed' = <<>>
       /\ last' = [call |-> "spillover_table", arg |-> node]
       /\ UNCHANGED <<tables, domain_schema, global_schema, aux_schemas, ddl,
                      indices, inits, init_error>>

-----------------------------------------------------------------------------
(* Specifications: the inputs *)

NamePool == << <<"orders">>, <<"line_items">>, <<"parts">>, <<"notes">>,
               <<"tags">> >>

Missing == <<"missing">>

Column(name, type) ==
    [name |-> name, type |-> type, gen |-> "no", index |-> FALSE]

Generated(name, type) ==
    [name |-> name, type |-> type, gen |-> "code", index |-> FALSE]

INT == << <<"INT">> >>

\* the (columns, primary_key) pairs a node is drawn from
KeyKinds ==
    { [columns |-> <<Column("id", INT)>>, primary_key |-> << <<"id">> >>],
      [columns |-> <<Column("item_id", INT)>>,
       primary_key |-> << <<"item_id">> >>],
      [columns |-> <<Column("item_id", INT)>>, primary_key |-> <<>>],
      [columns |-> <<Column("item_id", INT), Column("id", <<>>)>>,
       primary_key |-> << <<"item_id">> >>],
      [columns |-> <<Column("year", <<>>)>>,
       primary_key |-> << <<"id", "year">> >>] }

Node(base, parent, kind, children, invalid) ==
    [base |-> base, parent |-> parent, columns |-> kind.columns,
     primary_key |-> kind.primary_key, children |-> children,
     invalid |-> invalid]

Shapes(n) == {p \in [1..n -> 0..(n - 1)] : \A i \in 1..n : p[i] < i}

HasChild(t, i) == \E j \in 1..Len(t) : t[j].parent = i

ColumnNames(columns) == {split(c)[1] : c \in Range(columns)}

\* a "children" mapping that holds a node exists; sibling names differ; a
\* primary key names columns of the table (declared, or of the parent's key)
WellFormed(t) ==
    /\ \A i \in 1..Len(t) : HasChild(t, i) => t[i].children
    /\ \A i, j \in 1..Len(t) :
          i # j /\ t[i].parent = t[j].parent => t[i].base # t[j].base
    /\ \A i \in 1..Len(t) : t[i].primary_key # <<>> =>
          Range(t[i].primary_key[1]) \subseteq
              ColumnNames(t[i].columns) \cup
              (IF t[i].parent # 0 /\ t[t[i].parent].primary_key # <<>>
               THEN Range(t[t[i].parent].primary_key[1]) ELSE {})

\* trees of n nodes that differ in shape, columns and keys, and in whether
\* the tables without children have an empty "children" mapping
KeyTrees(n) ==
    { t \in { [i \in 1..n |->
                 Node(NamePool[i], p[i], k[i],
                      c \/ \E j \in 1..n : p[j] = i, <<>>)] :
              p \in Shapes(n), k \in [1..n -> KeyKinds], c \in BOOLEAN } :
      WellFormed(t) }

InitDomain ==
    /\ ddl = <<>>
    /\ indices = <<>>
    /\ inits = 0
    /\ init_error = NoError
    /\ error = NoError
    /\ last = [call |-> "__init__", arg |-> <<>>]
    /\ result = <<>>
    /\ executed = <<>>

InitKeys ==
    /\ \E n \in 1..MaxNodes : tables \in KeyTrees(n)
    /\ domain_schema = << <<"s">> >>
    /\ global_schema = <<>>
    /\ aux_schemas = <<>>
    /\ InitDomain

BaseNames == {tables[i].base : i \in 1..Len(tables)}

\* The caller's script: construct the Domain, then init() and reads of what it
\* built.  A read changes nothing that a later call reads (init() included), so
\* one read after the last init() covers every sequence of calls.
Fresh == last.call \in {"__init__", "init"}

Next ==
    \/ Fresh /\ init
    \/ \E table \in BaseNames \cup {Missing} :
          Fresh /\ call_find_dependent(table)
    \/ \E table \in BaseNames : Fresh /\ drop(table)
    \/ \E table \in BaseNames : Fresh /\ create(<<table>>)
    \/ Fresh /\ create(<<>>)
    \/ \E node \in 1..Len(tables) : Fresh /\ call_spillover_table(node)


-----------------------------------------------------------------------------
(* Re-compilation and key propagation *)

\* C1: an init() of a Domain that was compiled before leaves the DDL list
\* exactly as the earlier init() built it, statement for statement.
C1_RecompileSameDdl == [][inits >= 1 /\ inits' = inits + 1 => ddl' = ddl]_vars

\* a child that received its parent's key column, compiled twice
C1_Witness ==
    /\ inits = 2
    /\ init_error = NoError
    /\ \E i \in 1..Len(tables) :
          /\ tables[i].parent # 0
          /\ tables[i].columns = <<Column("item_id", INT), Column("id", INT)>>

\* the number of column clauses for column c in a CREATE TABLE text
ColumnClauses(text, c) ==
    Cardinality({k \in 1..(Len(text) - 1) : text[k] = c /\ text[k + 1] = " "})

\* C4: every CREATE TABLE of a parented node has exactly one column clause for
\* each column of the parent's primary key, and so has the node's column list.
C4_ParentKeyOnce ==
    \A k \in 1..Len(ddl) :
        LET i == ddl[k].owner
        IN ddl[k].role = "table" /\ tables[i].parent # 0 =>
              \A c \in Range(tables[tables[i].parent].primary_key[1]) :
                  /\ ColumnClauses(ddl[k].text, c) = 1
                  /\ Cardinality({j \in 1..Len(tables[i].columns) :
                                     tables[i].columns[j].name = c}) = 1

\* a grandchild that received a key column its parent had itself inherited,
\* beside a child that declared the key column itself
C4_Witness ==
    /\ init_error = NoError
    /\ \E k \in 1..Len(ddl) :
          LET i == ddl[k].owner
          IN /\ ddl[k].role = "table"
             /\ tables[i].parent # 0
             /\ tables[tables[i].parent].parent # 0
             /\ tables[tables[i].parent].primary_key = << <<"id", "year">> >>
             /\ tables[i].columns =
                   <<Column("item_id", INT), Column("id", <<>>),
                     Column("year", <<>>)>>

RECURSIVE Preorder(_, _)
Preorder(t, ids) ==
    IF ids = <<>> THEN <<>>
    ELSE <<Head(ids)>> \o Preorder(t, ChildrenOf(t, Head(ids)))
         \o Preorder(t, Tail(ids))

\* the children, in the order of the walk, whose parent has no primary key
Keyless(t) ==
    SelectSeq(Preorder(t, ChildrenOf(t, 0)),
              LAMBDA i : t[i].parent # 0 /\ t[t[i].parent].primary_key = <<>>)

NoOtherFault(t) ==
    \A i \in 1..Len(t) :
        /\ t[i].invalid = <<>>
        /\ \A c \in Range(t[i].columns) : c.gen # "nocode"

\* C6 as stated: a node with a "children" mapping and no primary key makes
\* init() fail.
C6_ChildrenMappingNeedsKey ==
    inits >= 1 =>
        \A p \in 1..Len(tables) :
            tables[p].children /\ tables[p].primary_key = <<>> =>
                init_error # NoError

\* C6 amended: a node with at least one child and no primary key makes init()
\* fail, with the configuration error naming the first such node the walk
\* reaches when nothing else fails before; without such a node, and nothing
\* else at fault, init() completes.
C6_ParentOfChildNeedsKey ==
    inits >= 1 =>
        LET keyless == Keyless(tables)
        IN /\ keyless # <<>> =>
                 /\ init_error # NoError
                 /\ NoOtherFault(tables) =>
                       init_error = ParentKeyException(
                           tables[tables[keyless[1]].parent].base)
           /\ keyless = <<>> /\ NoOtherFault(tables) => init_error = NoError

\* a keyless parent of one child, after a keyed table compiled
C6_Witness ==
    /\ inits >= 1
    /\ Keyless(tables) # <<>>
    /\ init_error # NoError
    /\ Len(ddl) >= 3

\* C10 as stated: init() leaves the table tree as it was.
C10_TreeUnchanged == [][tables' = tables]_vars

IsPrefix(s, t) == Len(s) <= Len(t) /\ SubSeq(t, 1, Len(s)) = s

\* C10 amended: init() changes, beside the DDL and index lists, only the
\* column lists of parented nodes, and those only by appending the parent's
\* key columns the node lacked; all else of the specification is as it was.
C10_OnlyChildColumnsGrow ==
    [][/\ domain_schema' = domain_schema
       /\ global_schema' = global_schema
       /\ aux_schemas' = aux_schemas
       /\ Len(tables') = Len(tables)
       /\ \A i \in 1..Len(tables) :
             /\ tables'[i] = [tables[i] EXCEPT !.columns = tables'[i].columns]
             /\ IsPrefix(tables[i].columns, tables'[i].columns)
             /\ tables[i].parent = 0 => tables'[i].columns = tables[i].columns
             /\ \A k \in (Len(tables[i].columns) + 1)..Len(tables'[i].columns) :
                   LET column == tables'[i].columns[k]
                       p == tables[i].parent
                   IN /\ column \in Range(tables'[p].columns)
                      /\ column.name \in Range(tables[p].primary_key[1])
                      /\ column.name \notin ColumnNames(tables[i].columns)]_vars

\* a compiled tree in which a child's column list has grown
C10_Witness ==
    /\ inits = 1
    /\ \E i \in 1..Len(tables) :
          /\ tables[i].parent # 0
          /\ tables[i].columns = <<Column("item_id", INT), Column("id", INT)>>

-----------------------------------------------------------------------------
(* Specifications: validation policies *)

Audit == [key |-> <<"schema.audit">>, value |-> <<"audit">>]

Policy(action, target) == <<[action |-> action, target |-> target]>>

Target(schema_, table) == <<[schema |-> schema_, table |-> table]>>

\* invalid.records: absent, ignore, or insert into $schema.audit.rejects
Policies ==
    { <<>>,
      Policy("ignore", <<>>),
      Policy("insert", Target(<< <<"$", "schema.audit">> >>,
                              << <<"rejects">> >>)) }

RootKind ==
    [columns |-> <<Column("id", INT)>>, primary_key |-> << <<"id">> >>]

ChildKind ==
    [columns |-> <<Column("item_id", INT), Generated("total", INT)>>,
     primary_key |-> << <<"item_id">> >>]

\* trees of n nodes that differ in shape and policies
PolicyTrees(n) ==
    { [i \in 1..n |->
          Node(NamePool[i], p[i], IF p[i] = 0 THEN RootKind ELSE ChildKind,
               \E j \in 1..n : p[j] = i, v[i])] :
      p \in Shapes(n), v \in [1..n -> Policies] }

InitPolicies ==
    /\ \E n \in 1..MaxNodes : tables \in PolicyTrees(n)
    /\ domain_schema \in {<<>>, << <<"s">> >>}
    /\ global_schema = <<>>
    /\ aux_schemas = <<Audit>>
    /\ InitDomain


-----------------------------------------------------------------------------
(* The order of the DDL list *)

IsCreateSchema(s) == StartsWith(s.text, <<"CREATE SCHEMA IF NOT EXISTS ">>)
IsCreateTable(s) == StartsWith(s.text, <<"CREATE TABLE ">>)
IsFunction(s) == StartsWith(s.text, <<"CREATE OR REPLACE FUNCTION">>)
IsTrigger(s) == StartsWith(s.text, <<"CREATE TRIGGER">>)

RECURSIVE Descends(_, _, _)
Descends(t, i, a) ==
    t[i].parent # 0 /\ (t[i].parent = a \/ Descends(t, t[i].parent, a))

\* C7: after a successful init() every CREATE SCHEMA comes before every CREATE
\* TABLE, a table's CREATE TABLE before those of its descendants, and a table's
\* function and trigger after its CREATE TABLE and its spillover CREATE TABLE.
C7_DdlOrder ==
    inits >= 1 /\ init_error = NoError =>
        \A j, k \in 1..Len(ddl) :
            /\ IsCreateSchema(ddl[j]) /\ IsCreateTable(ddl[k]) => j < k
            /\ ddl[j].role = "table" /\ ddl[k].role = "table"
               /\ Descends(tables, ddl[k].owner, ddl[j].owner) => j < k
            /\ IsCreateTable(ddl[j]) /\ (IsFunction(ddl[k]) \/ IsTrigger(ddl[k]))
               /\ ddl[j].owner = ddl[k].owner => j < k

\* a child compiled with its table, its spillover table, its function and its
\* trigger, under a schema
C7_Witness ==
    /\ inits >= 1
    /\ init_error = NoError
    /\ schema # <<>>
    /\ \E i \in 1..Len(tables) :
          /\ tables[i].parent # 0
          /\ \E a, b, c, d \in 1..Len(ddl) :
                /\ ddl[a].owner = i /\ ddl[a].role = "table"
                /\ ddl[b].owner = i /\ ddl[b].role = "spillover"
                /\ ddl[c].owner = i /\ IsFunction(ddl[c])
                /\ ddl[d].owner = i /\ IsTrigger(ddl[d])

-----------------------------------------------------------------------------
(* invalid.records *)

Emitted(i, role) == {k \in 1..Len(ddl) : ddl[k].owner = i /\ ddl[k].role = role}

\* C3: init() succeeds, and every node that declares invalid.records, parented
\* or not, gets a function and a trigger; with insert a spillover table before
\* the function, with ignore no spillover table and empty audit actions.
C3_EveryPolicyCompiles ==
    inits >= 1 =>
        \A i \in 1..Len(tables) : tables[i].invalid # <<>> =>
            /\ init_error = NoError
            /\ Cardinality(Emitted(i, "function")) = 1
            /\ Cardinality(Emitted(i, "trigger")) = 1
            /\ tables[i].invalid[1].action = "insert" =>
                  \E k \in Emitted(i, "spillover") :
                      \A f \in Emitted(i, "function") : k < f
            /\ tables[i].invalid[1].action = "ignore" =>
                  /\ Emitted(i, "spillover") = {}
                  /\ \A f \in Emitted(i, "function") :
                        \A b \in Range(ddl[f].branches) : b.action = <<>>

-----------------------------------------------------------------------------
(* What the generated procedure does with a row *)

\* a column value: 0 is NULL
Values == 0..MaxValue

\* a test of the new row against a row of the table read ("T", "F"), or "E"
\* when the text names a column that is not there
AtomValue(a, new, row) ==
    IF a.column \notin DOMAIN new THEN "E"
    ELSE IF a.test = "isnull" THEN (IF new[a.column] = 0 THEN "T" ELSE "F")
    ELSE IF row = <<>> \/ a.column \notin DOMAIN row[1] THEN "E"
    ELSE IF new[a.column] # 0 /\ new[a.column] = row[1][a.column] THEN "T"
    ELSE "F"

ConditionValue(c, new, row) ==
    LET vs == {AtomValue(c.atoms[k], new, row) : k \in 1..Len(c.atoms)}
    IN IF "E" \in vs THEN "E"
       ELSE IF c.join = " AND " THEN (IF "F" \in vs THEN "F" ELSE "T")
       ELSE (IF "T" \in vs THEN "T" ELSE "F")

\* db maps the name of each table of the database to its rows
GuardValue(b, new, db) ==
    IF b.guard = "IF" THEN ConditionValue(b.condition, new, <<>>)
    ELSE IF b.from \notin DOMAIN db THEN "E"
    ELSE LET vs == {ConditionValue(b.condition, new, <<r>>) : r \in db[b.from]}
         IN IF "E" \in vs THEN "E"
            ELSE IF b.guard = "IF EXISTS"
            THEN (IF "T" \in vs THEN "T" ELSE "F")
            ELSE (IF "T" \in vs THEN "F" ELSE "T")

Audited(action) ==
    IF action = <<>> THEN <<>>
    ELSE <<[target |-> action[1].target, reason |-> action[1].reason]>>

RECURSIVE RunProcedure(_, _, _)
RunProcedure(branches, new, db) ==
    IF branches = <<>> THEN [returns |-> "NEW", audit |-> <<>>]
    ELSE LET g == GuardValue(Head(branches), new, db)
         IN IF g = "E" THEN [returns |-> "ERROR", audit |-> <<>>]
            ELSE IF g = "T"
            THEN [returns |-> "NULL", audit |-> Audited(Head(branches).action)]
            ELSE RunProcedure(Tail(branches), new, db)

\* the decision the row is due, for node i of the tree
Rejected(i, reason) ==
    [returns |-> "NULL",
     audit |-> IF tables[i].invalid[1].action = "insert"
               THEN <<[target |-> spillover_table(tables[i].base,
                                                  tables[i]).name[1],
                       reason |-> reason]>>
               ELSE <<>>]

Decision(i, new, parentRows, ownRows) ==
    LET pk == Range(tables[i].primary_key[1])
        fk == Range(tables[tables[i].parent].primary_key[1])
    IN IF \E c \in pk : new[c] = 0 THEN Rejected(i, "PRIMARY KEY")
       ELSE IF ~\E r \in parentRows : \A c \in fk : new[c] # 0 /\ new[c] = r[c]
       THEN Rejected(i, "FOREIGN KEY")
       ELSE IF \E r \in ownRows : \A c \in pk : new[c] = r[c]
       THEN Rejected(i, "DUPLICATE")
       ELSE [returns |-> "NEW", audit |-> <<>>]

\* every row, and every content of the table and of its parent, that the
\* procedure of node i can meet
DecidesByPriority(f) ==
    LET i == ddl[f].owner
        p == tables[i].parent
        pk == Range(tables[i].primary_key[1])
        fk == Range(tables[p].primary_key[1])
    IN \A new \in [pk \cup fk -> Values] :
       \A parentRows \in SUBSET [Range(tables[p].primary_key[1]) -> 1..MaxValue] :
       \A ownRows \in SUBSET [pk -> 1..MaxValue] :
           RunProcedure(ddl[f].branches, new,
                        (fqn(tables[i].base) :> ownRows)
                            @@ (fqn(tables[p].base) :> parentRows))
               = Decision(i, new, parentRows, ownRows)

\* C8: the procedure generated for a table rejects a row with a null key column
\* as PRIMARY KEY, else one with no parent row as FOREIGN KEY, else one whose
\* key is in the table as DUPLICATE, each with the audit action of that reason,
\* and returns every other row unchanged.
C8_PriorityDecision ==
    last.call = "init" /\ init_error = NoError =>
        \A f \in 1..Len(ddl) : IsFunction(ddl[f]) => DecidesByPriority(f)

\* the same, for the domains that have a schema
C8_PriorityDecisionUnderSchema ==
    last.call = "init" /\ init_error = NoError /\ schema # <<>> =>
        \A f \in 1..Len(ddl) : IsFunction(ddl[f]) => DecidesByPriority(f)

-----------------------------------------------------------------------------
(* create with an allow-list *)

\* C2: create(connection, list_of_tables) with a non-empty list executes the
\* CREATE TABLE, the function and the trigger of every table in the list, and
\* nothing that belongs to a table outside the list.
C2_AllowListExact ==
    last.call = "create" /\ last.arg # <<>> /\ init_error = NoError =>
        /\ \A k \in 1..Len(ddl) :
              /\ ddl[k].role \in {"table", "function", "trigger"}
              /\ tables[ddl[k].owner].base \in Range(last.arg)
              => ddl[k].text \in Range(executed)
        /\ \A k \in 1..Len(ddl) :
              /\ ddl[k].text \in Range(executed)
              => /\ ddl[k].owner # 0
                 /\ tables[ddl[k].owner].base \in Range(last.arg)

-----------------------------------------------------------------------------
(* Specifications: lookups by basename *)

LookupNames == {NamePool[1], NamePool[2], NamePool[3]}

\* invalid.records: absent, or insert into audit.<table>
LookupPolicies ==
    { <<>>, Policy("insert", Target(<< <<"audit">> >>, <<>>)) }

\* trees of n nodes that differ in shape and names, and in whether the first
\* table has a spillover table
LookupTrees(n) ==
    { t \in { [i \in 1..n |->
                 Node(b[i], p[i], RootKind, c[i], IF i = 1 THEN v ELSE <<>>)] :
              p \in Shapes(n), b \in [1..n -> LookupNames],
              c \in [1..n -> BOOLEAN], v \in LookupPolicies } : WellFormed(t) }

InitLookups ==
    /\ \E n \in 1..MaxNodes : tables \in LookupTrees(n)
    /\ domain_schema = << <<"s">> >>
    /\ global_schema = <<>>
    /\ aux_schemas = <<>>
    /\ InitDomain


RECURSIVE Subtree(_, _)
RECURSIVE Subtrees(_, _)

\* node i, then the subtree of each of its children, then its spillover table
Subtree(t, i) ==
    <<fqn(t[i].base)>> \o Subtrees(t, ChildrenOf(t, i))
        \o spillover_table(t[i].base, t[i]).name

Subtrees(t, ids) ==
    IF ids = <<>> THEN <<>>
    ELSE Subtree(t, Head(ids)) \o Subtrees(t, Tail(ids))

Named(table) == {i \in 1..Len(tables) : tables[i].base = table}

\* C5: find_dependent of a table the tree names once returns the table, the
\* dependents of its own children, depth first, then its spillover table: the
\* names of the subtree of that node, whatever other subtrees hold.
C5_DependentsOfSubtree ==
    last.call = "find_dependent" /\ Cardinality(Named(last.arg)) = 1 =>
        /\ error = NoError
        /\ result = Subtree(tables, CHOOSE i \in Named(last.arg) : TRUE)

-----------------------------------------------------------------------------
(* Specifications: spillover targets *)

TargetSchemas ==
    { <<>>, << <<"audit">> >>, << <<"$", "schema.audit">> >> }

TargetTables == { <<>>, << <<"rejects">> >> }

TargetPolicies ==
    { Policy("insert", Target(ts, tt)) : ts \in TargetSchemas,
                                         tt \in TargetTables }
    \cup { Policy("insert", <<>>), Policy("ignore", <<>>),
           Policy("drop", <<>>) }

\* trees of n nodes, one of which declares invalid.records
TargetTrees(n) ==
    { [i \in 1..n |->
          Node(NamePool[i], p[i], IF p[i] = 0 THEN RootKind ELSE ChildKind,
               \E j \in 1..n : p[j] = i, IF i = m THEN v ELSE <<>>)] :
      p \in Shapes(n), m \in 1..n, v \in TargetPolicies }

InitTargets ==
    /\ \E n \in 1..MaxNodes : tables \in TargetTrees(n)
    /\ domain_schema \in {<<>>, << <<"s">> >>}
    /\ global_schema \in {<<>>, << <<"g">> >>}
    /\ aux_schemas \in {<<>>, <<Audit>>}
    /\ InitDomain


\* C9: the spillover table of a node with action insert is <schema>.<table>:
\* the schema is target.schema when given (a $ value looked up in the domain's
\* specification) and else the schema of the domain; the table is target.table
\* when given and else the node's basename; omitting either part succeeds.
C9_SpilloverName ==
    LET definition == tables[last.arg]
        target == definition.invalid[1].target[1]
        given == target.schema # <<>>
        ts == IF ~given THEN schema[1]
              ELSE IF target.schema[1][1] = "$" THEN <<"audit">>
              ELSE target.schema[1]
        tt == IF target.table # <<>> THEN target.table[1]
              ELSE definition.base
    IN /\ last.call = "spillover_table"
       /\ definition.invalid # <<>>
       /\ definition.invalid[1].action = "insert"
       /\ definition.invalid[1].target # <<>>
       /\ given \/ schema # <<>>
       /\ given /\ target.schema[1][1] = "$" => aux_schemas # <<>>
       => /\ error = NoError
          /\ result = <<ts \o <<".">> \o tt>>

-----------------------------------------------------------------------------
(* Specifications *)

Init == InitPolicies \/ InitLookups \/ InitTargets

\* every call, on the trees that differ in policies, in names and in targets
Spec == Init /\ [][Next]_vars

\* compilation alone, on the trees that differ in keys and in policies
SpecCompile == (InitKeys \/ InitPolicies) /\ [][init]_vars

====
